---- MODULE Spec2Model ----
(***************************************************************************)
(* The ddisasm extractor of Oxide: modules/extractors/ddisasm_disasm.      *)
(* process() (module_interface.py) calls extract() (ddisasm_extract.py),   *)
(* which runs the external disassembler, parses its two fact files,        *)
(* reconciles them into an instruction/block model and cleans the scratch  *)
(* directory.  Fact files are modelled character by character: a line is   *)
(* a sequence of one-character strings, a file the sequence of lines that  *)
(* f.read().split('\n') yields.                                            *)
(***************************************************************************)
EXTENDS Integers, Sequences, FiniteSets, TLC

VARIABLES pc, obj, scratch_dir, fs, tool, exaustive_facts, output_map,
          result, exc, cleaned, reads, ret, store

vars == <<pc, obj, scratch_dir, fs, tool, exaustive_facts, output_map,
          result, exc, cleaned, reads, ret, store>>

(***************************************************************************)
(* Bounds                                                                  *)
(***************************************************************************)
\* Total number of lines of the two fact files of one binary.
MaxLines == 3

Runs == {1, 2}

(***************************************************************************)
(* Python values                                                           *)
(***************************************************************************)
None == [none |-> TRUE]

EmptyMap == [k \in {} |-> 0]

Put(m, k, v) == [x \in (DOMAIN m) \cup {k} |-> IF x = k THEN v ELSE m[x]]

NoExc == [type |-> "none", stage |-> "none"]

Raise(type, stage) == [type |-> type, stage |-> stage]

(***************************************************************************)
(* Text: str.split('\t') and int()                                         *)
(***************************************************************************)
TAB == "\t"

Digits == <<"0", "1", "2", "3", "4", "5", "6", "7", "8", "9">>

IsDigit(c) == \E d \in 1..Len(Digits) : Digits[d] = c

DigitVal(c) == (CHOOSE d \in 1..Len(Digits) : Digits[d] = c) - 1

\* line.split('\t'): always at least one token; "" gives [''].
RECURSIVE SplitTab(_, _, _)
SplitTab(s, cur, acc) ==
    IF s = <<>> THEN Append(acc, cur)
    ELSE IF Head(s) = TAB THEN SplitTab(Tail(s), <<>>, Append(acc, cur))
    ELSE SplitTab(Tail(s), Append(cur, Head(s)), acc)

Split(line) == SplitTab(line, <<>>, <<>>)

\* int(tok) succeeds on a non-empty run of decimal digits; it raises
\* ValueError on '' and on a lone tab (whitespace is stripped first).
IsInt(tok) == tok # <<>> /\ \A k \in 1..Len(tok) : IsDigit(tok[k])

RECURSIVE IntVal(_)
IntVal(tok) ==
    IF tok = <<>> THEN 0
    ELSE IntVal(SubSeq(tok, 1, Len(tok) - 1)) * 10 + DigitVal(tok[Len(tok)])

(***************************************************************************)
(* Header capability and address normalisation                             *)
(***************************************************************************)
\* header.get_offset(vaddr) of a fixed-base executable: the virtual address
\* minus the load delta of the section that holds it.
HeaderGetOffset(h, vaddr) == vaddr - h.delta

GetOffset(vaddr, h) ==
    IF h.type = "ELF"
    THEN IF h.etype = "Shared object file"
         THEN vaddr
         ELSE HeaderGetOffset(h, vaddr)
    ELSE vaddr

GetRva(vaddr, h) == vaddr

(***************************************************************************)
(* The parsers and the block populator, as functions of the file contents. *)
(* Each returns [err, ...]: err = "none" on normal return, else the name   *)
(* of the exception that leaves the function.                              *)
(***************************************************************************)
RECURSIVE ParseExaustiveFrom(_, _, _)
ParseExaustiveFrom(lines, h, instruction_map) ==
    IF lines = <<>> THEN [err |-> "none", map |-> instruction_map]
    ELSE LET inst_comp_tokens == Split(Head(lines)) IN
         IF inst_comp_tokens[1] = <<>> \/ Len(inst_comp_tokens) < 3
         THEN ParseExaustiveFrom(Tail(lines), h, instruction_map)
         ELSE IF ~IsInt(inst_comp_tokens[1])
         THEN [err |-> "ValueError", map |-> instruction_map]
         ELSE IF Len(inst_comp_tokens) < 4
         THEN [err |-> "IndexError", map |-> instruction_map]
         ELSE IF ~IsInt(inst_comp_tokens[2])
         THEN [err |-> "ValueError", map |-> instruction_map]
         ELSE ParseExaustiveFrom(Tail(lines), h,
                  Put(instruction_map,
                      GetOffset(IntVal(inst_comp_tokens[1]), h),
                      [mneu |-> inst_comp_tokens[3] \o <<" ">> \o inst_comp_tokens[4],
                       size |-> IntVal(inst_comp_tokens[2])]))

ParseExaustive(lines, h) == ParseExaustiveFrom(lines, h, EmptyMap)

\* The while loop of _extract_insn_facts.  An instruction of size 0 leaves
\* i unchanged, so the loop repeats the same iteration for ever: err is
\* "nonterminating" (sizes are parsed from digits only, so never negative).
RECURSIVE WalkInsn(_, _, _, _, _)
WalkInsn(i, end, h, facts, instruction_map) ==
    IF ~(i < end) THEN [err |-> "none", map |-> instruction_map]
    ELSE IF i \notin DOMAIN facts
    THEN [err |-> "KeyError", map |-> instruction_map]
    ELSE LET insn == facts[i]
             file_offset == GetOffset(i, h)
             updated == Put(instruction_map, file_offset, insn.mneu)
         IN  IF insn.size = 0
             THEN [err |-> "nonterminating", map |-> updated]
             ELSE WalkInsn(i + insn.size, end, h, facts, updated)

RECURSIVE ExtractInsnFactsFrom(_, _, _, _)
ExtractInsnFactsFrom(lines, h, facts, instruction_map) ==
    IF lines = <<>> THEN [err |-> "none", map |-> instruction_map]
    ELSE IF Head(lines) = <<>>
    THEN ExtractInsnFactsFrom(Tail(lines), h, facts, instruction_map)
    ELSE LET block_info == Split(Head(lines)) IN
         IF \E k \in 1..Len(block_info) : ~IsInt(block_info[k])
         THEN [err |-> "ValueError", map |-> instruction_map]
         ELSE IF Len(block_info) < 3
         THEN [err |-> "IndexError", map |-> instruction_map]
         ELSE LET w == WalkInsn(GetOffset(IntVal(block_info[1]), h),
                                GetOffset(IntVal(block_info[3]), h),
                                h, facts, instruction_map)
              IN  IF w.err # "none" THEN w
                  ELSE ExtractInsnFactsFrom(Tail(lines), h, facts, w.map)

ExtractInsnFacts(lines, h, facts) == ExtractInsnFactsFrom(lines, h, facts, EmptyMap)

\* The size stored is int(line[1]): the second CHARACTER of the line
\* (index 2 here, sequences being 1-based), not its second field.
RECURSIVE ExtractBlockFactsFrom(_, _, _)
ExtractBlockFactsFrom(lines, h, block_map) ==
    IF lines = <<>> THEN [err |-> "none", data |-> EmptyMap, map |-> block_map]
    ELSE LET line == Head(lines)
             block_tokens == Split(line)
         IN  IF block_tokens[1] = <<>> \/ Len(block_tokens) < 3
             THEN ExtractBlockFactsFrom(Tail(lines), h, block_map)
             ELSE IF ~IsInt(block_tokens[1]) \/ ~IsInt(<<line[2]>>)
             THEN [err |-> "ValueError", data |-> EmptyMap, map |-> block_map]
             ELSE ExtractBlockFactsFrom(Tail(lines), h,
                      Put(block_map,
                          GetOffset(IntVal(block_tokens[1]), h),
                          [size |-> IntVal(<<line[2]>>)]))

ExtractBlockFacts(lines, h) == ExtractBlockFactsFrom(lines, h, EmptyMap)

\* The while loop of _populate_block_map: "while bb < insn < bb + size",
\* entered with insn = bb.
RECURSIVE PopulateWalk(_, _, _, _, _, _)
PopulateWalk(bb, insn, size, h, facts, members) ==
    IF ~(bb < insn /\ insn < bb + size) THEN [err |-> "none", members |-> members]
    ELSE IF GetRva(insn, h) \notin DOMAIN facts
    THEN [err |-> "KeyError", members |-> members]
    ELSE LET e == facts[GetRva(insn, h)]
             grown == Append(members, <<insn, e.mneu>>)
         IN  IF e.size = 0
             THEN [err |-> "nonterminating", members |-> grown]
             ELSE PopulateWalk(bb, insn + e.size, size, h, facts, grown)

PopulateBlockMap(h, block_map, facts) ==
    LET walk(bb) == PopulateWalk(bb, bb, block_map[bb].size, h, facts, <<>>)
        failed == {bb \in DOMAIN block_map : walk(bb).err # "none"}
    IN  IF failed # {}
        THEN [err |-> walk(CHOOSE bb \in failed : TRUE).err, map |-> block_map]
        ELSE [err |-> "none",
              map |-> [bb \in DOMAIN block_map |-> [members |-> walk(bb).members]]]

(***************************************************************************)
(* Inputs: headers, fact-file lines, binaries, scratch directories         *)
(***************************************************************************)
ElfShared == [present |-> TRUE, known_format |-> TRUE, type |-> "ELF",
              etype |-> "Shared object file", delta |-> 0]

ElfExec == [present |-> TRUE, known_format |-> TRUE, type |-> "ELF",
            etype |-> "Executable file", delta |-> 1]

PeHeader == [present |-> TRUE, known_format |-> TRUE, type |-> "PE",
             etype |-> "Executable file", delta |-> 1]

UnknownHeader == [present |-> TRUE, known_format |-> FALSE, type |-> "Unknown",
                  etype |-> "Unknown", delta |-> 0]

NoHeader == [present |-> FALSE, known_format |-> FALSE, type |-> "Unknown",
             etype |-> "Unknown", delta |-> 0]

KnownHeaders == {ElfShared, ElfExec, PeHeader}

Blank == <<>>

\* instruction.facts lines: address TAB size TAB mnemonic TAB operands
InsnMov == <<"1", "2", TAB, "2", TAB, "m", "o", "v", TAB, "e", "a", "x">>

InsnRet == <<"1", "4", TAB, "1", TAB, "r", "e", "t", TAB>>

InsnNop == <<"1", "2", TAB, "1", TAB, "n", "o", "p", TAB>>

InsnZero == <<"1", "2", TAB, "0", TAB, "n", "o", "p", TAB>>

InsnShort == <<"9", TAB, "1">>

InsnLines == {InsnMov, InsnRet, InsnNop, InsnZero, Blank, InsnShort}

\* block_information.csv lines: address TAB size TAB third field
\* ("vaddr, size, end addr or last?", ddisasm_extract.py line 114)
BlkEnd == <<"1", "2", TAB, "2", TAB, "1", "4">>

BlkWide == <<"1", "2", TAB, "3", TAB, "1", "5">>

BlkLast == <<"1", "2", TAB, "2", TAB, "1", "3">>

BlkOneDigit == <<"3", TAB, "2", TAB, "5">>

BlkShort == <<"7", TAB, "1">>

BlkLines == {BlkEnd, BlkWide, BlkLast, BlkOneDigit, Blank, BlkShort}

\* A file read and split on '\n' has at least one line.
Files(Lines, n) == UNION {[1..k -> Lines] : k \in 1..n}

\* A binary is what the tool does with it: its exit status and, on success,
\* the two fact files it writes.  The shell redirects stdout to /dev/null.
FailingBinary == [exit |-> 1, insn |-> <<Blank>>, blk |-> <<Blank>>]

Binaries ==
    {[exit |-> 0, insn |-> i, blk |-> b] :
        <<i, b>> \in {x \in Files(InsnLines, MaxLines - 1) \X Files(BlkLines, MaxLines - 1) :
                          Len(x[1]) + Len(x[2]) <= MaxLines}}
    \cup {FailingBinary}

Objects ==
    [data : {TRUE}, header : KnownHeaders, bin : Binaries]
    \cup [data : {TRUE}, header : {UnknownHeader, NoHeader}, bin : {FailingBinary}]
    \cup [data : {FALSE}, header : {ElfShared}, bin : {FailingBinary}]

\* Two binaries for the concurrent specification.
ConcObjects ==
    [data : {TRUE}, header : {ElfShared},
     bin : {[exit |-> 0, insn |-> <<InsnMov>>, blk |-> <<BlkEnd>>],
            [exit |-> 0, insn |-> <<InsnRet>>, blk |-> <<Blank>>]}]

\* "scratch" is the path the code opens relative to the working directory;
\* OtherScratch is any scratch_dir that is not that directory.
CwdScratch == "scratch"

OtherScratch == "/tmp/oxide/scratch"

Dirs == {CwdScratch, OtherScratch}

InsnFile == "instruction.facts"

BlkFile == "block_information.csv"

EmptyDir == [n \in {} |-> None]

(***************************************************************************)
(* State                                                                   *)
(***************************************************************************)
OutputInit ==
    [meta |-> [tool_ver |-> "???", src_ver |-> "0.1", name |-> "Ddisasm"],
     instructions |-> EmptyMap, original_blocks |-> EmptyMap,
     canon_blocks |-> EmptyMap]

InitCommon ==
    /\ fs = [d \in Dirs |-> EmptyDir]
    /\ tool = [r \in Runs |-> "not_run"]
    /\ exaustive_facts = [r \in Runs |-> EmptyMap]
    /\ output_map = [r \in Runs |-> None]
    /\ result = [r \in Runs |-> None]
    /\ exc = [r \in Runs |-> NoExc]
    /\ cleaned = [r \in Runs |-> FALSE]
    /\ reads = [r \in Runs |-> {}]
    /\ ret = [r \in Runs |-> "none"]
    /\ store = [r \in Runs |-> None]

\* One call of process(); the second run never starts.
Init ==
    /\ InitCommon
    /\ pc = [r \in Runs |-> IF r = 1 THEN "process" ELSE "off"]
    /\ \E o \in Objects : obj = [r \in Runs |-> IF r = 1 THEN o ELSE
                                    [data |-> FALSE, header |-> NoHeader, bin |-> FailingBinary]]
    /\ \E d \in Dirs : scratch_dir = [r \in Runs |-> d]

\* Two calls in flight, each given its own scratch directory.
InitConc ==
    /\ InitCommon
    /\ pc = [r \in Runs |-> "process"]
    /\ obj \in [Runs -> ConcObjects]
    /\ scratch_dir \in {f \in [Runs -> Dirs] : \A a, b \in Runs : a # b => f[a] # f[b]}

(***************************************************************************)
(* process() and extract(), one action per stage                           *)
(***************************************************************************)
\* An exception no frame catches leaves extract() and process(); a loop
\* that cannot end leaves the run inside it.
Fail(r, err, stage) ==
    /\ pc' = [pc EXCEPT ![r] = IF err = "nonterminating" THEN "hung" ELSE "raised"]
    /\ exc' = [exc EXCEPT ![r] = Raise(err, stage)]

\* module_interface.process, up to the call of extract()
ProcessBegin(r) ==
    /\ pc[r] = "process"
    /\ IF ~obj[r].data \/ ~obj[r].header.present
       THEN /\ pc' = [pc EXCEPT ![r] = "returned"]
            /\ ret' = [ret EXCEPT ![r] = "False"]
       ELSE /\ pc' = [pc EXCEPT ![r] = "extract"]
            /\ ret' = ret
    /\ UNCHANGED <<obj, scratch_dir, fs, tool, exaustive_facts, output_map,
                   result, exc, cleaned, reads, store>>

\* extract(), up to the known_format test
ExtractInit(r) ==
    /\ pc[r] = "extract"
    /\ output_map' = [output_map EXCEPT ![r] = OutputInit]
    /\ pc' = [pc EXCEPT ![r] = IF obj[r].header.known_format
                               THEN "run_ddisasm" ELSE "extract_done"]
    /\ UNCHANGED <<obj, scratch_dir, fs, tool, exaustive_facts,
                   result, exc, cleaned, reads, ret, store>>

\* _run_ddisasm without its except branch: an output whatever the status.
RunDdisasmStdoutIgnoringExit(bin) == [stdout |-> ""]

\* What _run_ddisasm returns: the captured output, or None on a non-zero
\* exit status (CalledProcessError).
RunDdisasmStdout(bin) == IF bin.exit = 0 THEN [stdout |-> ""] ELSE None

\* The tool mounts scratch_dir and leaves its fact files under
\* scratch_dir/ddisasm/binary.
ToolWrites(r, bin) ==
    (InsnFile :> [owner |-> r, lines |-> bin.insn])
        @@ (BlkFile :> [owner |-> r, lines |-> bin.blk])

RunDdisasm(r) ==
    /\ pc[r] = "run_ddisasm"
    /\ LET bin == obj[r].bin
           ddisasm_stdout == RunDdisasmStdout(bin)
       IN  /\ tool' = [tool EXCEPT ![r] = IF bin.exit = 0 THEN "ok" ELSE "failed"]
           /\ fs' = IF bin.exit = 0
                    THEN [fs EXCEPT ![scratch_dir[r]] = ToolWrites(r, bin)]
                    ELSE fs
           /\ IF ddisasm_stdout = None
              THEN /\ pc' = [pc EXCEPT ![r] = "extract_done"]
                   /\ output_map' = output_map
              ELSE /\ pc' = [pc EXCEPT ![r] = "parse_exaustive"]
                   /\ output_map' = [output_map EXCEPT ![r] =
                          [meta |-> [tool_ver |-> "???", src_ver |-> "0.1",
                                     name |-> "Ddisasm", time |-> "elapsed"],
                           instructions |-> EmptyMap, original_blocks |-> EmptyMap,
                           canon_blocks |-> EmptyMap]]
    /\ UNCHANGED <<obj, scratch_dir, exaustive_facts, result, exc, cleaned,
                   reads, ret, store>>

\* exaustive_facts = _parse_exaustive(<scratch_dir>/ddisasm/binary/instruction.facts)
CallParseExaustive(r) ==
    /\ pc[r] = "parse_exaustive"
    /\ LET dir == fs[scratch_dir[r]] IN
       IF InsnFile \notin DOMAIN dir
       THEN /\ Fail(r, "FileNotFoundError", "parse_exaustive")
            /\ UNCHANGED <<exaustive_facts, reads>>
       ELSE LET parsed == ParseExaustive(dir[InsnFile].lines, obj[r].header) IN
            /\ reads' = [reads EXCEPT ![r] = @ \cup {dir[InsnFile].owner}]
            /\ IF parsed.err # "none"
               THEN /\ Fail(r, parsed.err, "parse_exaustive")
                    /\ UNCHANGED exaustive_facts
               ELSE /\ exaustive_facts' = [exaustive_facts EXCEPT ![r] = parsed.map]
                    /\ pc' = [pc EXCEPT ![r] = "extract_insn_facts"]
                    /\ UNCHANGED exc
    /\ UNCHANGED <<obj, scratch_dir, fs, tool, output_map, result, cleaned, ret, store>>

\* output_map["instructions"] = _extract_insn_facts(...), which opens
\* scratch/ddisasm/binary/block_information.csv relative to the working directory
CallExtractInsnFacts(r) ==
    /\ pc[r] = "extract_insn_facts"
    /\ LET dir == fs[CwdScratch] IN
       IF BlkFile \notin DOMAIN dir
       THEN /\ Fail(r, "FileNotFoundError", "extract_insn_facts")
            /\ UNCHANGED <<output_map, reads>>
       ELSE LET got == ExtractInsnFacts(dir[BlkFile].lines, obj[r].header,
                                        exaustive_facts[r]) IN
            /\ reads' = [reads EXCEPT ![r] = @ \cup {dir[BlkFile].owner}]
            /\ IF got.err # "none"
               THEN /\ Fail(r, got.err, "extract_insn_facts")
                    /\ UNCHANGED output_map
               ELSE /\ output_map' = [output_map EXCEPT ![r].instructions = got.map]
                    /\ pc' = [pc EXCEPT ![r] = "extract_block_facts"]
                    /\ UNCHANGED exc
    /\ UNCHANGED <<obj, scratch_dir, fs, tool, exaustive_facts, result, cleaned,
                   ret, store>>

\* res = _extract_block_facts(<scratch_dir>/ddisasm/binary/block_information.csv)
CallExtractBlockFacts(r) ==
    /\ pc[r] = "extract_block_facts"
    /\ LET dir == fs[scratch_dir[r]] IN
       IF BlkFile \notin DOMAIN dir
       THEN /\ Fail(r, "FileNotFoundError", "extract_block_facts")
            /\ UNCHANGED <<output_map, reads>>
       ELSE LET res == ExtractBlockFacts(dir[BlkFile].lines, obj[r].header) IN
            /\ reads' = [reads EXCEPT ![r] = @ \cup {dir[BlkFile].owner}]
            /\ IF res.err # "none"
               THEN /\ Fail(r, res.err, "extract_block_facts")
                    /\ UNCHANGED output_map
               ELSE /\ output_map' = [output_map EXCEPT ![r] =
                          [meta |-> @.meta, instructions |-> @.instructions,
                           original_blocks |-> res.map, canon_blocks |-> @.canon_blocks,
                           data |-> res.data]]
                    /\ pc' = [pc EXCEPT ![r] = "populate_block_map"]
                    /\ UNCHANGED exc
    /\ UNCHANGED <<obj, scratch_dir, fs, tool, exaustive_facts, result, cleaned,
                   ret, store>>

\* _populate_block_map(header, output_map['original_blocks'], ..., exaustive_facts)
CallPopulateBlockMap(r) ==
    /\ pc[r] = "populate_block_map"
    /\ LET done == PopulateBlockMap(obj[r].header, output_map[r].original_blocks,
                                    exaustive_facts[r]) IN
       IF done.err # "none"
       THEN /\ Fail(r, done.err, "populate_block_map")
            /\ UNCHANGED output_map
       ELSE /\ output_map' = [output_map EXCEPT ![r].original_blocks = done.map]
            /\ pc' = [pc EXCEPT ![r] = "cleanup"]
            /\ UNCHANGED exc
    /\ UNCHANGED <<obj, scratch_dir, fs, tool, exaustive_facts, result, cleaned,
                   reads, ret, store>>

\* _cleanup_tempfiles() then "return output_map".  glob lists the entries
\* of scratch/ddisasm/binary in the working directory; each is removed
\* (a directory by rmtree) until a removal raises: only IsADirectoryError
\* is caught, so any other OSError, a PermissionError say, propagates and
\* the entries in kept stay.
CallCleanupTempfiles(r) ==
    /\ pc[r] = "cleanup"
    /\ cleaned' = [cleaned EXCEPT ![r] = TRUE]
    /\ \E kept \in SUBSET (DOMAIN fs[CwdScratch]) :
          /\ fs' = [fs EXCEPT ![CwdScratch] = [n \in kept |-> fs[CwdScratch][n]]]
          /\ IF kept # {}
             THEN /\ Fail(r, "PermissionError", "cleanup")
                  /\ UNCHANGED result
             ELSE /\ result' = [result EXCEPT ![r] = output_map[r]]
                  /\ pc' = [pc EXCEPT ![r] = "extract_done"]
                  /\ UNCHANGED exc
    /\ UNCHANGED <<obj, scratch_dir, tool, exaustive_facts, output_map, reads,
                   ret, store>>

\* module_interface.process, after extract() returned
ProcessEnd(r) ==
    /\ pc[r] = "extract_done"
    /\ pc' = [pc EXCEPT ![r] = "returned"]
    /\ IF result[r] = None
       THEN /\ ret' = [ret EXCEPT ![r] = "False"]
            /\ store' = store
       ELSE /\ ret' = [ret EXCEPT ![r] = "True"]
            /\ store' = [store EXCEPT ![r] = result[r]]
    /\ UNCHANGED <<obj, scratch_dir, fs, tool, exaustive_facts, output_map,
                   result, exc, cleaned, reads>>

Next ==
    \E r \in Runs :
        \/ ProcessBegin(r)
        \/ ExtractInit(r)
        \/ RunDdisasm(r)
        \/ CallParseExaustive(r)
        \/ CallExtractInsnFacts(r)
        \/ CallExtractBlockFacts(r)
        \/ CallPopulateBlockMap(r)
        \/ CallCleanupTempfiles(r)
        \/ ProcessEnd(r)

Spec == Init /\ [][Next]_vars

SpecConc == InitConc /\ [][Next]_vars

TypeOK ==
    /\ \A r \in Runs : pc[r] \in {"off", "process", "extract", "run_ddisasm",
           "parse_exaustive", "extract_insn_facts", "extract_block_facts",
           "populate_block_map", "cleanup", "extract_done", "returned",
           "raised", "hung"}
    /\ \A r \in Runs : ret[r] \in {"none", "True", "False"}

(***************************************************************************)
(* extract() under process() as one function of its inputs: the run of one *)
(* binary on an empty scratch space whose cleanup meets no failing removal.*)
(***************************************************************************)
Ended(end, err, res) == [end |-> end, err |-> err, result |-> res]

Aborted(err) == Ended(IF err = "nonterminating" THEN "hung" ELSE "raised", err, None)

ExtractAlone(o, dir) ==
    IF ~o.data \/ ~o.header.present \/ ~o.header.known_format
       \/ RunDdisasmStdout(o.bin) = None
    THEN Ended("returned", "none", None)
    ELSE LET parsed == ParseExaustive(o.bin.insn, o.header) IN
         IF parsed.err # "none" THEN Aborted(parsed.err)
         ELSE IF dir # CwdScratch THEN Aborted("FileNotFoundError")
         ELSE LET got == ExtractInsnFacts(o.bin.blk, o.header, parsed.map) IN
              IF got.err # "none" THEN Aborted(got.err)
              ELSE LET res == ExtractBlockFacts(o.bin.blk, o.header) IN
                   IF res.err # "none" THEN Aborted(res.err)
                   ELSE LET done == PopulateBlockMap(o.header, res.map, parsed.map) IN
                        IF done.err # "none" THEN Aborted(done.err)
                        ELSE Ended("returned", "none",
                                 [meta |-> [tool_ver |-> "???", src_ver |-> "0.1",
                                            name |-> "Ddisasm", time |-> "elapsed"],
                                  instructions |-> got.map,
                                  original_blocks |-> done.map,
                                  canon_blocks |-> EmptyMap,
                                  data |-> res.data])

(***************************************************************************)
(* Vocabulary of the properties                                            *)
(***************************************************************************)
Ending == {"returned", "raised", "hung"}

Outcome(r) == Ended(pc[r], exc[r].type, result[r])

\* The run is past _populate_block_map.
Populated(r) == pc[r] = "cleanup" \/ cleaned[r]

\* extract() returned an OutputModel.
Completed(r) == pc[r] \in {"extract_done", "returned"} /\ result[r] # None

\* A line the tolerance policy accepts: non-empty first field, 3 fields or more.
Accepted(line) == Split(line)[1] # <<>> /\ Len(Split(line)) >= 3

Field(line, n) == IntVal(Split(line)[n])

RawAddrs(lines) == {Field(lines[k], 1) : k \in {j \in 1..Len(lines) : Accepted(lines[j])}}

\* A file without its blank and short lines.
Tolerated(lines) == SelectSeq(lines, Accepted)

\* The traversal of section 4.4: from start, while cursor < end, append
\* (cursor, mnemonic) and advance by the instruction's size.
RECURSIVE BlockTraversal(_, _, _, _)
BlockTraversal(cursor, end, table, members) ==
    IF ~(cursor < end) THEN [err |-> "none", members |-> members]
    ELSE IF cursor \notin DOMAIN table THEN [err |-> "KeyError", members |-> members]
    ELSE IF table[cursor].size = 0 THEN [err |-> "nonterminating", members |-> members]
    ELSE BlockTraversal(cursor + table[cursor].size, end, table,
                        Append(members, <<cursor, table[cursor].mneu>>))

\* The block table handed to _populate_block_map in run r.
BlockTable(r) == ExtractBlockFacts(obj[r].bin.blk, obj[r].header).map

(***************************************************************************)
(* Properties                                                              *)
(***************************************************************************)
\* C1: after _populate_block_map every block's record is exactly its member
\* list, the (cursor, mnemonic) pairs of the traversal from start while
\* cursor < start + size, and has no size field.
BlockPopulation ==
    \A r \in Runs : Populated(r) =>
        \A bb \in DOMAIN BlockTable(r) :
            LET walk == BlockTraversal(bb, bb + BlockTable(r)[bb].size,
                                       exaustive_facts[r], <<>>)
            IN  walk.err = "none" =>
                    output_map[r].original_blocks[bb] = [members |-> walk.members]

\* C2: when the disassembler exits with a non-zero status, extract() returns
\* None without reading a fact file, and process() returns False and stores
\* nothing.
ToolFailureYieldsNoResult ==
    \A r \in Runs : tool[r] = "failed" =>
        /\ pc[r] \in {"extract_done", "returned"}
        /\ result[r] = None
        /\ reads[r] = {}
        /\ exaustive_facts[r] = EmptyMap
        /\ exc[r] = NoExc
        /\ store[r] = None
        /\ ret[r] # "True"
        /\ pc[r] = "returned" => ret[r] = "False"

\* C2 witness: a run whose tool failed and whose process() has returned.
ToolFailureReturned ==
    \E r \in Runs : tool[r] = "failed" /\ pc[r] = "returned" /\ ret[r] = "False"

\* C3: no run returns an OutputModel holding a block whose traversal reaches
\* an address that is not a key of the instruction table.
FatalReconciliation ==
    \A r \in Runs : Completed(r) =>
        \A bb \in DOMAIN BlockTable(r) :
            BlockTraversal(bb, bb + BlockTable(r)[bb].size,
                           exaustive_facts[r], <<>>).err # "KeyError"

\* C4: a run whose tool succeeded does not end, by return or by exception,
\* without having performed the scratch cleanup.
CleanupFollowsTool ==
    \A r \in Runs :
        tool[r] = "ok" /\ pc[r] \in {"raised", "extract_done", "returned"} => cleaned[r]

\* C5: every key of the instruction table, of the output instructions and
\* of original_blocks is GetOffset(v), applied once, of a raw address v of
\* the corresponding fact table.
AddressDomainConsistency ==
    \A r \in Runs : Completed(r) =>
        LET norm(lines) == {GetOffset(v, obj[r].header) : v \in RawAddrs(lines)} IN
        /\ DOMAIN exaustive_facts[r] \subseteq norm(obj[r].bin.insn)
        /\ DOMAIN result[r].instructions \subseteq norm(obj[r].bin.insn)
        /\ DOMAIN result[r].original_blocks \subseteq norm(obj[r].bin.blk)

\* C6: with distinct scratch directories no run reads a fact file another
\* run wrote, and each run ends as it would have ended alone.
CrossRunIsolation ==
    \A r \in Runs :
        /\ reads[r] \subseteq {r}
        /\ pc[r] \in Ending /\ exc[r].stage # "cleanup" =>
               Outcome(r) = ExtractAlone(obj[r], scratch_dir[r])

\* C7: once parsing and population succeeded and cleanup has been attempted,
\* extract() returns the complete OutputModel, whether or not a removal failed.
CleanupFailureHarmless ==
    \A r \in Runs : cleaned[r] =>
        pc[r] \in {"extract_done", "returned"} /\ result[r] = output_map[r]

\* C8: blank lines and lines of fewer than 3 fields change nothing: if the
\* run on the files without them ends normally, the run on the files with
\* them ends the same way with the same result.
TolerantParsing ==
    \A r \in Runs : pc[r] \in Ending /\ exc[r].stage # "cleanup" =>
        LET bare == [obj[r] EXCEPT !.bin.insn = Tolerated(@),
                                   !.bin.blk = Tolerated(@)]
            base == ExtractAlone(bare, scratch_dir[r])
        IN  base.end = "returned" => Outcome(r) = base

\* C9: the size stored for a block is the integer value of the second field
\* of the (last) accepted line for its address.
BlockSizeIsSecondField ==
    \A r \in Runs : pc[r] = "populate_block_map" =>
        LET lines == obj[r].bin.blk IN
        \A k \in 1..Len(lines) :
            (/\ Accepted(lines[k])
             /\ \A j \in (k + 1)..Len(lines) :
                    Accepted(lines[j]) => Field(lines[j], 1) # Field(lines[k], 1))
            => output_map[r].original_blocks[GetOffset(Field(lines[k], 1), obj[r].header)].size
                   = Field(lines[k], 2)

\* C10: no block-walking loop runs an iteration that leaves its cursor where
\* it was; every walk ends at the block end or at a failed lookup.
BlockTraversalTerminates ==
    \A r \in Runs : pc[r] # "hung" /\ exc[r].type # "nonterminating"

====
